---- MODULE Spec2Model ----
(***************************************************************************)
(* Model of the fbjni exception bridge.                                     *)
(*                                                                          *)
(*  - lyra/cxa_throw.cpp: the __cxa_throw / __cxa_init_primary_exception    *)
(*    hook, the global map from exception object to ExceptionState, the     *)
(*    wrapped destructor and the trace query, run by several threads.       *)
(*  - fbjni/detail/Exceptions.cpp: translation of C++ exceptions to Java    *)
(*    throwables and back (second part of the module).                      *)
(***************************************************************************)
EXTENDS Integers, Sequences, FiniteSets, TLC

\* ------------------------------------------------------------------------
\* Bounds
\* ------------------------------------------------------------------------
NumThreads == 2
NumObjs == 2

Threads == 1..NumThreads
Objs == 1..NumObjs
NoThread == 0
NoObj == 0

\* destructor_type values handed to the hook: nullptr or a real destructor.
Destructors == {"nullptr", "dtor"}

VARIABLES
    enableBacktraces,   \* std::atomic<bool> enableBacktraces
    table,              \* *get_exception_state_map(): set of map nodes
    mutex,              \* *get_exception_state_map_mutex(): owner or NoThread
    obj,                \* the exception objects of the C++ runtime
    pc                  \* per thread: position inside the hook's functions

hookVars == <<enableBacktraces, table, mutex, obj, pc>>

VARIABLES
    heap,               \* the managed throwables, in order of construction
    pending,            \* the JNI pending-exception slot: a throwable or 0
    exc,                \* the C++ exception in flight on the native side
    last,               \* outcome of the last bridge operation
    raised              \* number of C++ exceptions raised so far

jniVars == <<heap, pending, exc, last, raised>>

VARIABLES
    wrappers,           \* the JniException objects native code holds
    grefs,              \* the JNI global references created so far
    wlast               \* outcome of the last operation on a wrapper

wrapVars == <<wrappers, grefs, wlast>>

\* ExceptionTraceHolder contents: the stack walked by thread `thread` while it
\* was throwing the object at address `o`; src tells which constructor call
\* walked it (the hook's, or the Holder<E> base built by fbthrow).
NoTrace == [thread |-> NoThread, o |-> NoObj, src |-> "none"]

\* ExceptionTraceHolder(): walks the stack of the calling thread.
ExceptionTraceHolder(t, o, src) == [thread |-> t, o |-> o, src |-> src]

\* Mutant of ExceptionState: the node is stored under a neighbouring address.
ExceptionState_wrong_key(key, trace, destructor) ==
    [key |-> (key % NumObjs) + 1, trace |-> trace, destructor |-> destructor]

\* struct ExceptionState { ExceptionTraceHolder trace; destructor_type destructor; }
\* together with the key it is stored under.
ExceptionState(key, trace, destructor) ==
    [key |-> key, trace |-> trace, destructor |-> destructor]

\* Mutant of find: the key is ignored, any node matches.
find_any(map, key) == map

\* exception_state_map->find(exception_obj): the nodes with that key.
find(map, key) == {r \in map : r.key = key}

\* unordered_map::emplace: inserts only when no node has the key.
emplace(map, key, state) ==
    IF find(map, key) = {} THEN map \cup {state} ELSE map

\* Mutant of erase: the node stays in the map.
erase_nothing(map, node) == map

\* unordered_map::erase(it)
erase(map, node) == map \ {node}

FreshObj ==
    [state |-> "free", dtor |-> "nullptr", holder |-> FALSE,
     birth |-> NoTrace, hookFlag |-> "unset", regDtor |-> "none",
     origCalls |-> 0, dtorCalls |-> 0, type |-> "none", regType |-> "none"]

\* What is left of an exception object once the runtime has freed it: only
\* the record of how the hook saw it and whether its own destructor ran.
Freed(x) == [FreshObj EXCEPT !.state = "dead", !.dtor = x.dtor,
                             !.hookFlag = x.hookFlag,
                             !.dtorCalls = x.dtorCalls]

Idle == [at |-> "idle", o |-> NoObj, d |-> "nullptr", res |-> NoTrace,
         re |-> FALSE, ty |-> "none"]

\* The std::type_info of the thrown object: fbthrow throws a Holder<E>.
TypeInfo(holder) == IF holder THEN "Holder<E>" ELSE "E"


HookInit ==
    /\ enableBacktraces = TRUE
    /\ table = {}
    /\ mutex = NoThread
    /\ obj = [o \in Objs |-> FreshObj]
    /\ pc = [t \in Threads |-> Idle]

\* void enableCxaThrowHookBacktraces(bool enable)
enableCxaThrowHookBacktraces(t, enable) ==
    /\ enableBacktraces # enable
    /\ enableBacktraces' = enable
    /\ UNCHANGED <<table, mutex, obj, pc>>
    /\ UNCHANGED jniVars
    /\ UNCHANGED wrapVars

\* A throw expression (or fbthrow, holder = TRUE) has built a new exception
\* object at address o and enters the hooked primitive:
\* cxa_throw(obj, type, destructor) / cxa_init_primary_exception(...)
cxa_throw_enter(t, o, destructor, holder) ==
    /\ pc[t].at = "idle"
    /\ obj[o].state \in {"free", "dead"}
    /\ obj' = [obj EXCEPT ![o] =
                 [FreshObj EXCEPT !.state = "init", !.dtor = destructor,
                                  !.holder = holder,
                                  !.type = TypeInfo(holder),
                                  !.birth = ExceptionTraceHolder(t, o,
                                       IF holder THEN "fbthrow" ELSE "none")]]
    /\ pc' = [pc EXCEPT ![t] = [Idle EXCEPT !.at = "add_load", !.o = o,
                                            !.d = destructor,
                                            !.ty = TypeInfo(holder)]]
    /\ UNCHANGED <<enableBacktraces, table, mutex>>
    /\ UNCHANGED jniVars
    /\ UNCHANGED wrapVars

\* Mutant of add_exception_trace_load: the flag is read but not obeyed.
add_exception_trace_load_always(t) ==
    /\ pc[t].at = "add_load"
    /\ pc' = [pc EXCEPT ![t].at = "add_lock"]
    /\ obj' = [obj EXCEPT ![pc[t].o].hookFlag =
                 IF enableBacktraces THEN "on" ELSE "off"]
    /\ UNCHANGED <<enableBacktraces, table, mutex>>
    /\ UNCHANGED jniVars
    /\ UNCHANGED wrapVars

\* add_exception_trace: if (enableBacktraces.load(relaxed))
add_exception_trace_load(t) ==
    /\ pc[t].at = "add_load"
    /\ pc' = [pc EXCEPT ![t].at =
                 IF enableBacktraces THEN "add_lock" ELSE "call_original"]
    /\ obj' = [obj EXCEPT ![pc[t].o].hookFlag =
                 IF enableBacktraces THEN "on" ELSE "off"]
    /\ UNCHANGED <<enableBacktraces, table, mutex>>
    /\ UNCHANGED jniVars
    /\ UNCHANGED wrapVars

\* Mutant of add_exception_trace_lock: the lock is taken only after the
\* capture.
add_exception_trace_lock_after_capture(t) ==
    /\ pc[t].at = "add_lock"
    /\ pc' = [pc EXCEPT ![t].at = "add_capture"]
    /\ UNCHANGED <<enableBacktraces, table, mutex, obj>>
    /\ UNCHANGED jniVars
    /\ UNCHANGED wrapVars

\* add_exception_trace: std::lock_guard lock(mutex)
add_exception_trace_lock(t) ==
    /\ pc[t].at = "add_lock"
    /\ mutex = NoThread
    /\ mutex' = t
    /\ pc' = [pc EXCEPT ![t].at = "add_capture"]
    /\ UNCHANGED <<enableBacktraces, table, obj>>
    /\ UNCHANGED jniVars
    /\ UNCHANGED wrapVars

\* add_exception_trace: the argument ExceptionState{ExceptionTraceHolder(),
\* destructor} is evaluated inside the lock_guard's scope.
add_exception_trace_capture(t) ==
    /\ pc[t].at = "add_capture"
    /\ pc' = [pc EXCEPT ![t].at = "add_emplace",
                        ![t].res = ExceptionTraceHolder(t, pc[t].o, "hook")]
    /\ UNCHANGED <<enableBacktraces, table, mutex, obj>>
    /\ UNCHANGED jniVars
    /\ UNCHANGED wrapVars

\* add_exception_trace: get_exception_state_map()->emplace(obj, ...), then the
\* lock_guard goes out of scope.
add_exception_trace_emplace(t) ==
    /\ pc[t].at = "add_emplace"
    /\ mutex = t
    /\ table' = emplace(table, pc[t].o,
                        ExceptionState(pc[t].o, pc[t].res, pc[t].d))
    /\ mutex' = NoThread
    /\ pc' = [pc EXCEPT ![t].at = "call_original", ![t].res = NoTrace]
    /\ UNCHANGED <<enableBacktraces, obj>>
    /\ UNCHANGED jniVars
    /\ UNCHANGED wrapVars

\* Mutant of call_original: the destructor is handed on as it came.
call_original_own_destructor(t) ==
    /\ pc[t].at = "call_original"
    /\ obj' = [obj EXCEPT ![pc[t].o].state = "live",
                          ![pc[t].o].regDtor = pc[t].d,
                          ![pc[t].o].regType = pc[t].ty,
                          ![pc[t].o].origCalls = @ + 1]
    /\ pc' = [pc EXCEPT ![t] = Idle]
    /\ UNCHANGED <<enableBacktraces, table, mutex>>
    /\ UNCHANGED jniVars
    /\ UNCHANGED wrapVars

\* original_cxa_throw(obj, type, trace_destructor): the runtime takes the
\* object with the substituted destructor; the object is now in flight.
call_original(t) ==
    /\ pc[t].at = "call_original"
    /\ obj' = [obj EXCEPT ![pc[t].o].state = "live",
                          ![pc[t].o].regDtor = "trace_destructor",
                          ![pc[t].o].regType = pc[t].ty,
                          ![pc[t].o].origCalls = @ + 1]
    /\ pc' = [pc EXCEPT ![t] = Idle]
    /\ UNCHANGED <<enableBacktraces, table, mutex>>
    /\ UNCHANGED jniVars
    /\ UNCHANGED wrapVars

\* No thread is inside getExceptionTraceHolder for o (each such thread holds a
\* std::exception_ptr, which keeps the object alive).
Unreferenced(o) ==
    \A t \in Threads : pc[t].o = o => pc[t].at = "idle"

\* The last reference to the exception object is dropped on thread t: the
\* runtime calls the destructor it was given, trace_destructor(exception_obj).
trace_destructor_enter(t, o) ==
    /\ pc[t].at = "idle"
    /\ obj[o].state = "live"
    /\ obj[o].regDtor = "trace_destructor"
    /\ Unreferenced(o)
    /\ obj' = [obj EXCEPT ![o].state = "dying"]
    /\ pc' = [pc EXCEPT ![t] = [Idle EXCEPT !.at = "dtor_lock", !.o = o]]
    /\ UNCHANGED <<enableBacktraces, table, mutex>>
    /\ UNCHANGED jniVars
    /\ UNCHANGED wrapVars

\* trace_destructor: std::lock_guard lock(mutex)
trace_destructor_lock(t) ==
    /\ pc[t].at = "dtor_lock"
    /\ mutex = NoThread
    /\ mutex' = t
    /\ pc' = [pc EXCEPT ![t].at = "dtor_find"]
    /\ UNCHANGED <<enableBacktraces, table, obj>>
    /\ UNCHANGED jniVars
    /\ UNCHANGED wrapVars

\* trace_destructor, it == end(): return (the lock_guard unlocks); the
\* runtime then frees the exception object.
trace_destructor_missing(t) ==
    /\ pc[t].at = "dtor_find"
    /\ mutex = t
    /\ find(table, pc[t].o) = {}
    /\ mutex' = NoThread
    /\ obj' = [obj EXCEPT ![pc[t].o] = Freed(@)]
    /\ pc' = [pc EXCEPT ![t] = Idle]
    /\ UNCHANGED <<enableBacktraces, table>>
    /\ UNCHANGED jniVars
    /\ UNCHANGED wrapVars

\* Mutant of trace_destructor_erase: the node is left in the map when the
\* original destructor is called.
trace_destructor_erase_skipped(t) ==
    /\ pc[t].at = "dtor_find"
    /\ mutex = t
    /\ \E it \in find(table, pc[t].o) :
          pc' = [pc EXCEPT ![t].at = "dtor_call", ![t].d = it.destructor]
    /\ mutex' = NoThread
    /\ UNCHANGED <<enableBacktraces, table, obj>>
    /\ UNCHANGED jniVars
    /\ UNCHANGED wrapVars

\* Mutant of trace_destructor_erase: the locked scope reaches to the end of
\* the function, the original destructor is called with the mutex held.
trace_destructor_erase_keeps_mutex(t) ==
    /\ pc[t].at = "dtor_find"
    /\ mutex = t
    /\ \E it \in find(table, pc[t].o) :
          /\ table' = erase(table, it)
          /\ pc' = [pc EXCEPT ![t].at = "dtor_call", ![t].d = it.destructor]
    /\ UNCHANGED <<enableBacktraces, obj, mutex>>
    /\ UNCHANGED jniVars
    /\ UNCHANGED wrapVars

\* trace_destructor, entry found: original_destructor = it->second.destructor;
\* exception_state_map->erase(it); end of the locked scope.
trace_destructor_erase(t) ==
    /\ pc[t].at = "dtor_find"
    /\ mutex = t
    /\ \E it \in find(table, pc[t].o) :
          /\ table' = erase(table, it)
          /\ pc' = [pc EXCEPT ![t].at = "dtor_call", ![t].d = it.destructor]
    /\ mutex' = NoThread
    /\ UNCHANGED <<enableBacktraces, obj>>
    /\ UNCHANGED jniVars
    /\ UNCHANGED wrapVars

\* trace_destructor: if (original_destructor) original_destructor(obj);
\* return; the runtime then frees the exception object.
trace_destructor_call(t) ==
    /\ pc[t].at = "dtor_call"
    /\ obj' = [obj EXCEPT ![pc[t].o] =
                 Freed([@ EXCEPT !.dtorCalls =
                              IF pc[t].d # "nullptr" THEN @ + 1 ELSE @])]
    /\ pc' = [pc EXCEPT ![t] = Idle]
    /\ UNCHANGED <<enableBacktraces, table, mutex>>
    /\ UNCHANGED jniVars
    /\ UNCHANGED wrapVars

\* detail::getExceptionTraceHolder(ptr) is entered by a thread that holds an
\* exception_ptr to the live object o.
getExceptionTraceHolder_enter(t, o) ==
    /\ \/ pc[t].at = "idle"
       \/ pc[t].at = "rethrown" /\ pc[t].o = o
    /\ obj[o].state = "live"
    /\ pc' = [pc EXCEPT ![t] = [Idle EXCEPT !.at = "look_lock", !.o = o,
                                            !.re = pc[t].re]]
    /\ UNCHANGED <<enableBacktraces, table, mutex, obj>>
    /\ UNCHANGED jniVars
    /\ UNCHANGED wrapVars

\* Mutant of getExceptionTraceHolder_lock: the lookup goes on without the
\* mutex.
getExceptionTraceHolder_lock_skipped(t) ==
    /\ pc[t].at = "look_lock"
    /\ pc' = [pc EXCEPT ![t].at = "look_find"]
    /\ UNCHANGED <<enableBacktraces, table, mutex, obj>>
    /\ UNCHANGED jniVars
    /\ UNCHANGED wrapVars

\* getExceptionTraceHolder: std::lock_guard lock(mutex)
getExceptionTraceHolder_lock(t) ==
    /\ pc[t].at = "look_lock"
    /\ mutex = NoThread
    /\ mutex' = t
    /\ pc' = [pc EXCEPT ![t].at = "look_find"]
    /\ UNCHANGED <<enableBacktraces, table, obj>>
    /\ UNCHANGED jniVars
    /\ UNCHANGED wrapVars

\* Mutant of getExceptionTraceHolder_found: the holder embedded in the
\* object is preferred to the record.
getExceptionTraceHolder_found_embedded_first(t) ==
    /\ pc[t].at = "look_find"
    /\ mutex = t
    /\ \E it \in find(table, pc[t].o) :
          pc' = [pc EXCEPT ![t].at = "look_done",
                           ![t].res = IF obj[pc[t].o].holder
                                      THEN obj[pc[t].o].birth
                                      ELSE it.trace]
    /\ mutex' = NoThread
    /\ UNCHANGED <<enableBacktraces, table, obj>>
    /\ UNCHANGED jniVars
    /\ UNCHANGED wrapVars

\* getExceptionTraceHolder: it != end(): return &it->second.trace
getExceptionTraceHolder_found(t) ==
    /\ pc[t].at = "look_find"
    /\ mutex = t
    /\ \E it \in find(table, pc[t].o) :
          pc' = [pc EXCEPT ![t].at = "look_done", ![t].res = it.trace]
    /\ mutex' = NoThread
    /\ UNCHANGED <<enableBacktraces, table, obj>>
    /\ UNCHANGED jniVars
    /\ UNCHANGED wrapVars

\* getExceptionTraceHolder: no entry, the locked scope ends.
getExceptionTraceHolder_missing(t) ==
    /\ pc[t].at = "look_find"
    /\ mutex = t
    /\ find(table, pc[t].o) = {}
    /\ mutex' = NoThread
    /\ pc' = [pc EXCEPT ![t].at = "look_fallback"]
    /\ UNCHANGED <<enableBacktraces, table, obj>>
    /\ UNCHANGED jniVars
    /\ UNCHANGED wrapVars

\* getExceptionTraceHolderInException(ptr): the ExceptionTraceHolder base of
\* the exception object (fbthrow's Holder<E>), or nullptr.
getExceptionTraceHolderInException(o) ==
    IF obj[o].holder THEN obj[o].birth ELSE NoTrace

\* getExceptionTraceHolder: return getExceptionTraceHolderInException(ptr)
getExceptionTraceHolder_fallback(t) ==
    /\ pc[t].at = "look_fallback"
    /\ pc' = [pc EXCEPT ![t].at = "look_done",
                        ![t].res = getExceptionTraceHolderInException(pc[t].o)]
    /\ UNCHANGED <<enableBacktraces, table, mutex, obj>>
    /\ UNCHANGED jniVars
    /\ UNCHANGED wrapVars

\* The caller of getExceptionTraceHolder has used the result and goes on.
getExceptionTraceHolder_return(t) ==
    /\ pc[t].at = "look_done"
    /\ pc' = [pc EXCEPT ![t] = Idle]
    /\ UNCHANGED <<enableBacktraces, table, mutex, obj>>
    /\ UNCHANGED jniVars
    /\ UNCHANGED wrapVars

\* Mutant of rethrow: the rethrow goes through the hooked primitive again.
rethrow_hooked(t, o) ==
    /\ pc[t].at = "idle"
    /\ obj[o].state = "live"
    /\ pc' = [pc EXCEPT ![t] = [Idle EXCEPT !.at = "add_load", !.o = o,
                                            !.d = obj[o].dtor, !.re = TRUE]]
    /\ UNCHANGED <<enableBacktraces, table, mutex, obj>>
    /\ UNCHANGED jniVars
    /\ UNCHANGED wrapVars

\* `throw;` or std::rethrow_exception(ptr) of the live object o on thread t:
\* the runtime's rethrow primitive is not the hooked function, so none of the
\* hook's code runs; the same object is in flight again and lands in a handler
\* of thread t.
rethrow(t, o) ==
    /\ pc[t].at = "idle"
    /\ obj[o].state = "live"
    /\ pc' = [pc EXCEPT ![t] = [Idle EXCEPT !.at = "rethrown", !.o = o,
                                            !.re = TRUE]]
    /\ UNCHANGED <<enableBacktraces, table, mutex, obj>>
    /\ UNCHANGED jniVars
    /\ UNCHANGED wrapVars

\* The handler that caught the rethrown object ends without a lookup.
handler_end(t) ==
    /\ pc[t].at = "rethrown"
    /\ pc' = [pc EXCEPT ![t] = Idle]
    /\ UNCHANGED <<enableBacktraces, table, mutex, obj>>
    /\ UNCHANGED jniVars
    /\ UNCHANGED wrapVars

HookNext ==
    \/ \E t \in Threads, b \in BOOLEAN : enableCxaThrowHookBacktraces(t, b)
    \/ \E t \in Threads, o \in Objs, d \in Destructors, h \in BOOLEAN :
          cxa_throw_enter(t, o, d, h)
    \/ \E t \in Threads : add_exception_trace_load(t)
    \/ \E t \in Threads : add_exception_trace_lock(t)
    \/ \E t \in Threads : add_exception_trace_capture(t)
    \/ \E t \in Threads : add_exception_trace_emplace(t)
    \/ \E t \in Threads : call_original(t)
    \/ \E t \in Threads, o \in Objs : trace_destructor_enter(t, o)
    \/ \E t \in Threads : trace_destructor_lock(t)
    \/ \E t \in Threads : trace_destructor_missing(t)
    \/ \E t \in Threads : trace_destructor_erase(t)
    \/ \E t \in Threads : trace_destructor_call(t)
    \/ \E t \in Threads, o \in Objs : getExceptionTraceHolder_enter(t, o)
    \/ \E t \in Threads : getExceptionTraceHolder_lock(t)
    \/ \E t \in Threads : getExceptionTraceHolder_found(t)
    \/ \E t \in Threads : getExceptionTraceHolder_missing(t)
    \/ \E t \in Threads : getExceptionTraceHolder_fallback(t)
    \/ \E t \in Threads : getExceptionTraceHolder_return(t)
    \/ \E t \in Threads, o \in Objs : rethrow(t, o)
    \/ \E t \in Threads : handler_end(t)

\* ------------------------------------------------------------------------
\* fbjni/detail/Exceptions.cpp: C++ exceptions <-> Java throwables
\* ------------------------------------------------------------------------
MaxHeap == 2
MaxDepth == 2
MaxRaised == 1

Msgs == {"bad", "inner"}
Codes == {2, 13}
\* Frames lyra recorded for a C++ exception (none: capture off or no record).
NativeTraces == {<<>>, <<"n1", "n2">>}
\* The managed stack trace a throwable gets when the JVM constructs it.
JavaStackNow == <<"m1">>

\* Mutant of CatchOrder: the runtime_error clause placed above the more
\* derived system_error clause.
CatchOrder_runtime_first ==
    <<"JniException", "ios_failure", "invalid_argument", "bad_alloc",
      "out_of_range", "runtime_error", "system_error", "exception", "cstr">>

\* The catch clauses of convertCppExceptionToJavaException, top to bottom;
\* the final catch (...) is "...".
CatchOrder ==
    <<"JniException", "ios_failure", "invalid_argument", "bad_alloc",
      "out_of_range", "system_error", "runtime_error", "exception", "cstr">>

\* Thrown C++ types; range_alloc_error is a user type deriving from both
\* std::out_of_range and std::bad_alloc, int a non-exception value, foreign an
\* exception without C++ type information.
StdTypes ==
    {"ios_failure", "invalid_argument", "bad_alloc", "out_of_range",
     "system_error", "runtime_error", "logic_error", "range_alloc_error",
     "cstr", "int", "foreign"}
ClassTypes == (StdTypes \ {"cstr", "int", "foreign"}) \cup {"JniException"}

\* The catch clauses a thrown object of the given type can bind to (its own
\* type and its unambiguous public bases).
Bases(type) ==
    CASE type = "JniException"      -> {"JniException", "exception"}
      [] type = "ios_failure"       -> {"ios_failure", "system_error",
                                        "runtime_error", "exception"}
      [] type = "invalid_argument"  -> {"invalid_argument", "exception"}
      [] type = "bad_alloc"         -> {"bad_alloc", "exception"}
      [] type = "out_of_range"      -> {"out_of_range", "exception"}
      [] type = "system_error"      -> {"system_error", "runtime_error",
                                        "exception"}
      [] type = "runtime_error"     -> {"runtime_error", "exception"}
      [] type = "logic_error"       -> {"exception"}
      [] type = "range_alloc_error" -> {"out_of_range", "bad_alloc"}
      [] type = "cstr"              -> {"cstr"}
      [] OTHER                      -> {}

\* try { std::rethrow_exception(ptr); } catch ... : the first clause, from
\* clause k on, that the thrown type matches.
RECURSIVE FirstMatch(_, _)
FirstMatch(type, k) ==
    IF k > Len(CatchOrder) THEN "..."
    ELSE IF CatchOrder[k] \in Bases(type) THEN CatchOrder[k]
    ELSE FirstMatch(type, k + 1)

\* kJavaDescriptor of the class each clause instantiates.
JavaKind(clause) ==
    CASE clause = "ios_failure"      -> "java.io.IOException"
      [] clause = "invalid_argument" -> "java.lang.IllegalArgumentException"
      [] clause = "bad_alloc"        -> "java.lang.OutOfMemoryError"
      [] clause = "out_of_range"     -> "java.lang.ArrayIndexOutOfBoundsException"
      [] clause = "system_error"     -> "com.facebook.jni.CppSystemErrorException"
      [] clause = "runtime_error"    -> "java.lang.RuntimeException"
      [] clause = "exception"        -> "com.facebook.jni.CppException"
      [] OTHER                       -> "com.facebook.jni.UnknownCppException"

\* A java.lang.Throwable object: cause = 0 while no cause is initialised.
Throwable(kind, msg, code, cause, trace) ==
    [kind |-> kind, msg |-> msg, code |-> code, cause |-> cause,
     trace |-> trace]

\* One exception object of a C++ nested chain. throwable_ is JniException's
\* global reference (0: empty); adopted remembers what it was built with.
Member(type, msg, code, frames) ==
    [type |-> type, msg |-> msg, code |-> code, frames |-> frames,
     throwable_ |-> 0, adopted |-> 0]

\* JniException::JniException(alias_ref<jthrowable> throwable)
JniException(throwable, frames) ==
    [type |-> "JniException", msg |-> "", code |-> 0, frames |-> frames,
     throwable_ |-> throwable, adopted |-> throwable]

\* The exception in flight: chain[1] is the outermost object, chain[i+1] the
\* nested_ptr of chain[i]; emptyTail: the last object is a
\* std::nested_exception whose nested_ptr is empty.
NoExc == [chain |-> <<>>, emptyTail |-> FALSE]

\* What the last operation did: its name, how it ended, the throwable it
\* produced, and what it started from (chain, heap0, pendingBefore); env is
\* the JNI call that failed in it, order the calls of func: member and result.
NoLast ==
    [op |-> "none", status |-> "none", value |-> 0, chain |-> <<>>,
     order |-> <<>>, heap0 |-> <<>>, pendingBefore |-> 0, env |-> <<>>]

\* The process runs until std::terminate() or a fatal log ends it.
Running == last.status # "terminated"

JniInit ==
    /\ heap = <<>>
    /\ pending = 0
    /\ exc = NoExc
    /\ last = NoLast
    /\ raised = 0

\* The argument of the constructor each clause calls: ex.what(), msg, or the
\* "Unknown: " + type name of the final clause; "" when create() takes none.
CreateMsg(clause, m) ==
    CASE clause = "..." /\ m.type = "foreign" -> ""
      [] clause = "..." -> "Unknown: int"
      [] OTHER -> m.msg

\* JCppSystemErrorException::create passes e.code().value(); no other
\* constructor takes a code.
CreateCode(clause, m) == IF clause = "system_error" THEN m.code ELSE 0

\* Mutant of addCppStacktraceToJavaException: the native frames are put
\* after the managed frames.
addCppStacktraceToJavaException_appended(st, f) ==
    IF st.current = 0 THEN [st EXCEPT !.status = "null_deref"]
    ELSE IF f \in {"getStackTrace", "setStackTrace"}
    THEN [st EXCEPT !.status = "raised", !.failed = <<f>>]
    ELSE LET cppStack == st.chain[st.i].frames
             javaStack == st.heap[st.current].trace
         IN [st EXCEPT !.heap[st.current].trace = javaStack \o cppStack]

\* Mutant of addCppStacktraceToJavaException: an exception without recorded
\* frames is reported as an error.
addCppStacktraceToJavaException_needs_trace(st, f) ==
    IF st.current = 0 THEN [st EXCEPT !.status = "null_deref"]
    ELSE IF f \in {"getStackTrace", "setStackTrace"}
    THEN [st EXCEPT !.status = "raised", !.failed = <<f>>]
    ELSE LET cppStack == st.chain[st.i].frames
             javaStack == st.heap[st.current].trace
         IN IF cppStack = <<>>
            THEN [st EXCEPT !.status = "raised", !.failed = <<"no trace">>]
            ELSE [st EXCEPT !.heap[st.current].trace = cppStack \o javaStack]

\* addCppStacktraceToJavaException(java, cpp): newStack holds the cpp frames
\* followed by the java frames and replaces java's stack trace.
addCppStacktraceToJavaException(st, f) ==
    IF st.current = 0 THEN [st EXCEPT !.status = "null_deref"]
    ELSE IF f \in {"getStackTrace", "setStackTrace"}
    THEN [st EXCEPT !.status = "raised", !.failed = <<f>>]
    ELSE LET cppStack == st.chain[st.i].frames
             javaStack == st.heap[st.current].trace
         IN [st EXCEPT !.heap[st.current].trace = cppStack \o javaStack]

\* Mutant of convertCppExceptionToJavaException: no clause for JniException,
\* which is then translated like any other std::exception.
convertCppExceptionToJavaException_wrap(st, f) ==
    LET m == st.chain[st.i]
        clause == FirstMatch(m.type, 2)
    IN IF f = "create"
       THEN [st EXCEPT !.status = "raised", !.failed = <<f>>]
       ELSE addCppStacktraceToJavaException(
                [st EXCEPT !.heap = Append(@,
                               Throwable(JavaKind(clause), CreateMsg(clause, m),
                                         CreateCode(clause, m), 0, JavaStackNow)),
                           !.current = Len(st.heap) + 1], f)

\* convertCppExceptionToJavaException(ptr) for the chain member st.i; f is the
\* JNI call that fails during it, if any.
convertCppExceptionToJavaException(st, f) ==
    LET m == st.chain[st.i]
        clause == FirstMatch(m.type, 1)
    IN IF clause = "JniException"
       THEN \* current = ex.releaseThrowable()
            addCppStacktraceToJavaException(
                [st EXCEPT !.current = m.throwable_,
                           !.chain[st.i].throwable_ = 0], f)
       ELSE IF f = "create"
       THEN [st EXCEPT !.status = "raised", !.failed = <<f>>]
       ELSE addCppStacktraceToJavaException(
                [st EXCEPT !.heap = Append(@,
                               Throwable(JavaKind(clause), CreateMsg(clause, m),
                                         CreateCode(clause, m), 0, JavaStackNow)),
                           !.current = Len(st.heap) + 1], f)

\* JThrowable::initCause: Throwable.initCause throws when a cause is already
\* initialised or the cause is the throwable itself (or when the call fails);
\* otherwise it sets the cause.
initCause(st, f) ==
    IF \/ f = "initCause"
       \/ st.heap[st.current].cause # 0
       \/ st.current = st.previous
    THEN [st EXCEPT !.status = "raised", !.failed = <<"initCause">>]
    ELSE [st EXCEPT !.heap[st.current].cause = st.previous]

\* Mutant of func: the cause is linked the other way round.
func_reversed(st, i, f) ==
    LET c == convertCppExceptionToJavaException([st EXCEPT !.i = i], f)
        l == IF c.status = "ok" /\ c.previous # 0
             THEN [c EXCEPT !.heap[c.previous].cause = c.current]
             ELSE c
    IN IF l.status # "ok" THEN l
       ELSE [l EXCEPT !.previous = l.current,
                      !.order = Append(@, [i |-> i, id |-> l.current])]

\* Mutant of func: a failing step is swallowed and the member translated to
\* an UnknownCppException instead.
func_degrades(st, i, f) ==
    LET c == convertCppExceptionToJavaException([st EXCEPT !.i = i], f)
        l == IF c.status = "ok" /\ c.previous # 0 THEN initCause(c, f) ELSE c
    IN IF l.status = "raised"
       THEN [l EXCEPT !.status = "ok",
                      !.heap = Append(@, Throwable(JavaKind("..."), "", 0, 0,
                                                   JavaStackNow)),
                      !.previous = Len(l.heap) + 1,
                      !.order = Append(@, [i |-> i, id |-> Len(l.heap) + 1])]
       ELSE IF l.status # "ok" THEN l
       ELSE [l EXCEPT !.previous = l.current,
                      !.order = Append(@, [i |-> i, id |-> l.current])]

\* The lambda func of getJavaExceptionForCppException, applied to member i.
func(st, i, f) ==
    LET c == convertCppExceptionToJavaException([st EXCEPT !.i = i], f)
        l == IF c.status = "ok" /\ c.previous # 0 THEN initCause(c, f) ELSE c
    IN IF l.status # "ok" THEN l
       ELSE [l EXCEPT !.previous = l.current,
                      !.order = Append(@, [i |-> i, id |-> l.current])]

\* catch (const std::nested_exception& e): member i derives from
\* std::nested_exception.
IsNested(st, i) == i < Len(st.chain) \/ (i = Len(st.chain) /\ st.emptyTail)

\* denest(func, ptr), ptr pointing at member i (i = Len + 1: an empty ptr).
RECURSIVE denest(_, _, _)
denest(st, i, fails) ==
    IF i > Len(st.chain)
    THEN [st EXCEPT !.status = "assert"]
    ELSE LET inner == IF IsNested(st, i) THEN denest(st, i + 1, fails) ELSE st
         IN IF inner.status # "ok" THEN inner ELSE func(inner, i, fails[i])

FailPoints == {"none", "create", "getStackTrace", "setStackTrace", "initCause"}

\* Objects the translation of the chain constructs at most.
NewObjects(chain) ==
    Cardinality({i \in 1..Len(chain) : chain[i].type # "JniException"})

\* local_ref<JThrowable> getJavaExceptionForCppException(std::exception_ptr)
\* called with the exception in flight.
getJavaExceptionForCppException(fails) ==
    /\ Running
    /\ exc.chain # <<>>
    /\ Len(heap) + NewObjects(exc.chain) <= MaxHeap
    /\ LET st0 == [heap |-> heap, chain |-> exc.chain,
                   emptyTail |-> exc.emptyTail, status |-> "ok",
                   previous |-> 0, current |-> 0, i |-> 0, order |-> <<>>,
                   failed |-> <<>>]
           st == denest(st0, 1, fails)
       IN /\ heap' = st.heap
          /\ exc' = [exc EXCEPT !.chain = st.chain]
          /\ last' = [op |-> "translate",
                      status |-> IF st.status = "ok" THEN "returned"
                                 ELSE st.status,
                      value |-> IF st.status = "ok" THEN st.previous ELSE 0,
                      chain |-> exc.chain, order |-> st.order,
                      heap0 |-> heap, pendingBefore |-> pending,
                      env |-> st.failed]
    /\ UNCHANGED pending
    /\ UNCHANGED hookVars
    /\ UNCHANGED wrapVars
    /\ UNCHANGED raised

\* FBJNI_LOGF(...): the fatal log ends the process.
FBJNI_LOGF(r) == [r EXCEPT !.status = "terminated"]

\* Mutant of setJavaExceptionAndAbortOnFailure: the ExceptionCheck after the
\* Throw is left out.
setJavaExceptionAndAbortOnFailure_unchecked(throwable, throwFails) ==
    [pending |-> IF throwable # 0 /\ ~throwFails THEN throwable ELSE pending,
     status |-> "returned"]

\* setJavaExceptionAndAbortOnFailure(env, throwable): env->Throw(throwable)
\* when there is a throwable (throwFails: Throw returns an error and sets
\* nothing), then the fatal log unless an exception is pending.
setJavaExceptionAndAbortOnFailure(throwable, throwFails) ==
    LET r == [pending |-> IF throwable # 0 /\ ~throwFails THEN throwable
                          ELSE pending,
              status |-> "returned"]
    IN IF r.pending = 0 THEN FBJNI_LOGF(r) ELSE r

\* getJavaExceptionForCppException(std::current_exception()) as evaluated
\* inside translatePendingCppExceptionToJavaException.
TranslateInFlight(fails) ==
    denest([heap |-> heap, chain |-> exc.chain, emptyTail |-> exc.emptyTail,
            status |-> "ok", previous |-> 0, current |-> 0, i |-> 0,
            order |-> <<>>, failed |-> <<>>], 1, fails)

\* void translatePendingCppExceptionToJavaException(), called in a handler
\* of the exception in flight: whatever the translation raises is caught by
\* catch (...) and ends in std::terminate(), as does a failed assertion or a
\* call through an empty reference.
translatePendingCppExceptionToJavaException(fails, throwFails) ==
    /\ Running
    /\ exc.chain # <<>>
    /\ Len(heap) + NewObjects(exc.chain) <= MaxHeap
    /\ LET st == TranslateInFlight(fails)
           r == IF st.status = "ok"
                THEN setJavaExceptionAndAbortOnFailure(st.previous, throwFails)
                ELSE [pending |-> pending, status |-> "terminated"]
       IN /\ heap' = st.heap
          /\ exc' = [exc EXCEPT !.chain = st.chain]
          /\ pending' = r.pending
          /\ last' = [op |-> "translatePending", status |-> r.status,
                      value |-> IF st.status = "ok" THEN st.previous ELSE 0,
                      chain |-> exc.chain, order |-> st.order,
                      heap0 |-> heap, pendingBefore |-> pending,
                      env |-> IF st.status = "ok" /\ throwFails
                              THEN <<"Throw">> ELSE st.failed]
    /\ UNCHANGED hookVars
    /\ UNCHANGED wrapVars
    /\ UNCHANGED raised

\* void JniException::setJavaException() const noexcept, called by a handler
\* on the JniException it caught (the outermost object in flight).
setJavaException(throwFails) ==
    /\ Running
    /\ exc.chain # <<>>
    /\ exc.chain[1].type = "JniException"
    /\ LET r == setJavaExceptionAndAbortOnFailure(exc.chain[1].throwable_,
                                                  throwFails)
       IN /\ pending' = r.pending
          /\ last' = [NoLast EXCEPT !.op = "setJavaException",
                                    !.status = r.status,
                                    !.value = exc.chain[1].throwable_,
                                    !.chain = exc.chain,
                                    !.pendingBefore = pending,
                                    !.env = IF throwFails THEN <<"Throw">>
                                            ELSE <<>>]
    /\ UNCHANGED <<heap, exc>>
    /\ UNCHANGED hookVars
    /\ UNCHANGED wrapVars
    /\ UNCHANGED raised

\* Managed code called from native code throws: the JVM constructs the
\* throwable (with a cause of its own when withCause) and leaves it pending.
JavaThrows(kind, msg, withCause) ==
    /\ pending = 0
    /\ Running
    /\ exc = NoExc
    /\ Len(heap) + (IF withCause THEN 2 ELSE 1) <= MaxHeap
    /\ heap' = IF withCause
               THEN heap \o <<Throwable("java.lang.Error", msg, 0, 0, JavaStackNow),
                              Throwable(kind, msg, 0, Len(heap) + 1, JavaStackNow)>>
               ELSE Append(heap, Throwable(kind, msg, 0, 0, JavaStackNow))
    /\ pending' = Len(heap')
    /\ last' = [NoLast EXCEPT !.op = "JavaThrows", !.value = Len(heap')]
    /\ UNCHANGED exc
    /\ UNCHANGED hookVars
    /\ UNCHANGED wrapVars
    /\ UNCHANGED raised

\* Mutant of throwPending: env->ExceptionClear() is left out.
throwPending_no_clear(op, occurredNull, frames) ==
    /\ Running
    /\ exc = NoExc
    /\ IF pending = 0
       THEN /\ last' = [NoLast EXCEPT !.op = op, !.status = "returned"]
            /\ UNCHANGED <<exc, raised>>
       ELSE /\ raised < MaxRaised
            /\ raised' = raised + 1
            /\ exc' = [chain |-> <<JniException(pending, frames)>>,
                       emptyTail |-> FALSE]
            /\ last' = [NoLast EXCEPT !.op = op, !.status = "raised",
                                      !.value = pending,
                                      !.pendingBefore = pending]
    /\ UNCHANGED <<heap, pending>>
    /\ UNCHANGED hookVars
    /\ UNCHANGED wrapVars

\* Body of throwPendingJniExceptionAsCppException() for the caller `op`:
\* occurredNull says that env->ExceptionOccurred() returns no reference.
throwPending(op, occurredNull, frames) ==
    /\ Running
    /\ exc = NoExc
    /\ IF pending = 0
       THEN /\ last' = [NoLast EXCEPT !.op = op, !.status = "returned"]
            /\ UNCHANGED <<pending, exc, raised>>
       ELSE IF occurredNull
       THEN /\ raised < MaxRaised
            /\ raised' = raised + 1
            /\ exc' = [chain |-> <<Member("runtime_error",
                           "Unable to get pending JNI exception.", 0, frames)>>,
                       emptyTail |-> FALSE]
            /\ last' = [NoLast EXCEPT !.op = op, !.status = "raised",
                                      !.pendingBefore = pending,
                                      !.env = <<"ExceptionOccurred">>]
            /\ UNCHANGED pending
       ELSE /\ raised < MaxRaised
            /\ raised' = raised + 1
            /\ pending' = 0
            /\ exc' = [chain |-> <<JniException(pending, frames)>>,
                       emptyTail |-> FALSE]
            /\ last' = [NoLast EXCEPT !.op = op, !.status = "raised",
                                      !.value = pending,
                                      !.pendingBefore = pending]
    /\ UNCHANGED heap
    /\ UNCHANGED hookVars
    /\ UNCHANGED wrapVars

\* void throwPendingJniExceptionAsCppException()
throwPendingJniExceptionAsCppException(occurredNull, frames) ==
    throwPending("throwPending", occurredNull, frames)

\* void throwCppExceptionIf(bool condition)
throwCppExceptionIf(condition, occurredNull, frames) ==
    IF ~condition
    THEN /\ Running
         /\ exc = NoExc
         /\ last' = [NoLast EXCEPT !.op = "throwCppExceptionIf",
                                   !.status = "returned"]
         /\ UNCHANGED <<heap, pending, exc, raised>>
         /\ UNCHANGED hookVars
         /\ UNCHANGED wrapVars
    ELSE IF pending # 0
    THEN throwPending("throwCppExceptionIf", occurredNull, frames)
    ELSE \* throw JniException(): wraps JRuntimeException::create()
         /\ Running
         /\ exc = NoExc
         /\ Len(heap) < MaxHeap
         /\ raised < MaxRaised
         /\ raised' = raised + 1
         /\ heap' = Append(heap, Throwable("java.lang.RuntimeException", "",
                                           0, 0, JavaStackNow))
         /\ exc' = [chain |-> <<JniException(Len(heap) + 1, frames)>>,
                    emptyTail |-> FALSE]
         /\ last' = [NoLast EXCEPT !.op = "throwCppExceptionIf",
                                   !.status = "raised",
                                   !.value = Len(heap) + 1, !.heap0 = heap]
         /\ UNCHANGED pending
         /\ UNCHANGED hookVars
         /\ UNCHANGED wrapVars

\* void throwNewJavaException(jthrowable throwable)
throwNewJavaException(throwable, frames) ==
    /\ Running
    /\ exc = NoExc
    /\ throwable \in 1..Len(heap)
    /\ raised < MaxRaised
    /\ raised' = raised + 1
    /\ exc' = [chain |-> <<JniException(throwable, frames)>>,
               emptyTail |-> FALSE]
    /\ last' = [NoLast EXCEPT !.op = "throwNewJavaException",
                              !.status = "raised", !.value = throwable]
    /\ UNCHANGED <<heap, pending>>
    /\ UNCHANGED hookVars
    /\ UNCHANGED wrapVars

\* Native code throws a C++ object m while no exception is being handled;
\* viaNested: it does so with std::throw_with_nested, which leaves the
\* nested_ptr empty.
NativeThrow(m, viaNested) ==
    /\ Running
    /\ exc = NoExc
    /\ viaNested => m.type \in ClassTypes
    /\ Len(heap) + NewObjects(<<m>>) <= MaxHeap
    /\ raised < MaxRaised
    /\ raised' = raised + 1
    /\ exc' = [chain |-> <<m>>, emptyTail |-> viaNested]
    /\ last' = [NoLast EXCEPT !.op = "throw"]
    /\ UNCHANGED <<heap, pending>>
    /\ UNCHANGED hookVars
    /\ UNCHANGED wrapVars

\* A handler of the exception in flight calls std::throw_with_nested(m): the
\* new object nests the one being handled.
throw_with_nested(m) ==
    /\ Running
    /\ exc.chain # <<>>
    /\ Len(exc.chain) < MaxDepth
    /\ m.type \in ClassTypes
    /\ m.type = "JniException" => m.throwable_ \in 1..Len(heap)
    /\ Len(heap) + NewObjects(<<m>> \o exc.chain) <= MaxHeap
    /\ exc' = [exc EXCEPT !.chain = <<m>> \o @]
    /\ last' = [NoLast EXCEPT !.op = "throw_with_nested"]
    /\ UNCHANGED <<heap, pending>>
    /\ UNCHANGED hookVars
    /\ UNCHANGED wrapVars
    /\ UNCHANGED raised

\* The last handler of the exception in flight ends: the runtime destroys the
\* exception objects.
handler_exit ==
    /\ Running
    /\ exc.chain # <<>>
    /\ exc' = NoExc
    /\ last' = [NoLast EXCEPT !.op = "handler_exit"]
    /\ UNCHANGED <<heap, pending>>
    /\ UNCHANGED hookVars
    /\ UNCHANGED wrapVars
    /\ UNCHANGED raised

\* The C++ objects native code can throw.
StdMembers ==
    {Member(ty, msg, IF ty \in {"system_error", "ios_failure"} THEN 13 ELSE 0, fr) :
        ty \in StdTypes, msg \in Msgs, fr \in NativeTraces}
    \cup {Member("system_error", msg, 2, <<>>) : msg \in Msgs}

JniMembers == {JniException(id, fr) : id \in 1..MaxHeap, fr \in NativeTraces}

JniNext ==
    \/ \E k \in {"java.lang.IllegalStateException"}, msg \in Msgs,
          c \in BOOLEAN : JavaThrows(k, msg, c)
    \/ \E n \in BOOLEAN, fr \in NativeTraces :
          throwPendingJniExceptionAsCppException(n, fr)
    \/ \E b \in BOOLEAN, n \in BOOLEAN, fr \in NativeTraces :
          throwCppExceptionIf(b, n, fr)
    \/ \E id \in 1..MaxHeap, fr \in NativeTraces : throwNewJavaException(id, fr)
    \/ \E m \in StdMembers, v \in BOOLEAN : NativeThrow(m, v)
    \/ \E m \in StdMembers \cup JniMembers : throw_with_nested(m)
    \/ \E fails \in [1..Len(exc.chain) -> FailPoints] :
          getJavaExceptionForCppException(fails)
    \/ \E fails \in [1..Len(exc.chain) -> FailPoints], tf \in BOOLEAN :
          translatePendingCppExceptionToJavaException(fails, tf)
    \/ \E tf \in BOOLEAN : setJavaException(tf)
    \/ handler_exit

\* ------------------------------------------------------------------------
\* fbjni/detail/Exceptions.cpp: the JniException objects and their references
\* ------------------------------------------------------------------------
MaxWrappers == 2
MaxRefs == 2

Wrappers == 1..MaxWrappers

\* std::string what_: empty, or the text of one tier for one throwable.
NoWhat == <<>>

\* A JniException object: throwable_ is its global_ref (an index of grefs, 0
\* when empty); returned collects the values what() has returned for it,
\* moved tells that it was the source of a move.
NoWrapper ==
    [state |-> "none", throwable_ |-> 0, what_ |-> NoWhat,
     isMessageExtracted_ |-> FALSE, returned |-> {}, moved |-> FALSE]

NoWLast ==
    [op |-> "none", w |-> 0, from |-> 0, status |-> "none", value |-> NoWhat,
     jcalls |-> 0, extracted |-> FALSE, before |-> {}, render |-> "none",
     str |-> "none"]

WrapInit ==
    /\ wrappers = [w \in Wrappers |-> NoWrapper]
    /\ grefs = <<>>
    /\ wlast = NoWLast

WRunning == wlast.status \notin {"terminated", "null_deref"}

\* The throwable a global reference designates (0 for the empty reference).
Target(r) == IF r = 0 THEN 0 ELSE grefs[r].target

\* make_global(ref): a new global reference to the same object, none for an
\* empty ref.
make_global(target) ==
    IF target = 0 THEN [refs |-> grefs, ref |-> 0]
    ELSE [refs |-> Append(grefs, [target |-> target, deleted |-> 0]),
          ref |-> Len(grefs) + 1]

\* throwable_.reset(): DeleteGlobalRef of the owned reference, if any.
reset(r) ==
    IF r = 0 THEN grefs ELSE [grefs EXCEPT ![r].deleted = @ + 1]

\* The storage of the object being constructed.
NewWrapper ==
    CHOOSE w \in Wrappers :
        /\ wrappers[w].state = "none"
        /\ \A v \in Wrappers : wrappers[v].state = "none" => w <= v

CanConstruct ==
    /\ WRunning
    /\ \E w \in Wrappers : wrappers[w].state = "none"
    /\ Len(grefs) < MaxRefs

\* JniException::JniException(alias_ref<jthrowable> throwable)
JniException_throwable(throwable) ==
    /\ CanConstruct
    /\ throwable \in 1..Len(heap)
    /\ LET g == make_global(throwable)
       IN /\ grefs' = g.refs
          /\ wrappers' = [wrappers EXCEPT ![NewWrapper] =
                             [NoWrapper EXCEPT !.state = "live",
                                               !.throwable_ = g.ref]]
    /\ wlast' = [NoWLast EXCEPT !.op = "construct", !.w = NewWrapper]
    /\ UNCHANGED <<heap, pending, exc, last, raised>>
    /\ UNCHANGED hookVars

\* JniException::JniException(): delegates with JRuntimeException::create().
JniException_default ==
    /\ CanConstruct
    /\ Len(heap) < MaxHeap
    /\ heap' = Append(heap, Throwable("java.lang.RuntimeException", "", 0, 0,
                                      JavaStackNow))
    /\ LET g == make_global(Len(heap) + 1)
       IN /\ grefs' = g.refs
          /\ wrappers' = [wrappers EXCEPT ![NewWrapper] =
                             [NoWrapper EXCEPT !.state = "live",
                                               !.throwable_ = g.ref]]
    /\ wlast' = [NoWLast EXCEPT !.op = "default", !.w = NewWrapper]
    /\ UNCHANGED <<pending, exc, last, raised>>
    /\ UNCHANGED hookVars

\* JniException::JniException(JniException&& rhs): the members are moved; the
\* moved-from std::string is left empty or as it was.
JniException_move(rhs, keepsWhat) ==
    /\ CanConstruct
    /\ wrappers[rhs].state = "live"
    /\ wrappers' = [wrappers EXCEPT
           ![NewWrapper] =
               [NoWrapper EXCEPT
                   !.state = "live",
                   !.throwable_ = wrappers[rhs].throwable_,
                   !.what_ = wrappers[rhs].what_,
                   !.isMessageExtracted_ = wrappers[rhs].isMessageExtracted_],
           ![rhs].throwable_ = 0,
           ![rhs].moved = TRUE,
           ![rhs].what_ = IF keepsWhat THEN @ ELSE NoWhat]
    /\ wlast' = [NoWLast EXCEPT !.op = "move", !.w = NewWrapper, !.from = rhs]
    /\ UNCHANGED grefs
    /\ UNCHANGED <<heap, pending, exc, last, raised>>
    /\ UNCHANGED hookVars

\* JniException::JniException(const JniException& rhs)
JniException_copy(rhs) ==
    /\ CanConstruct
    /\ wrappers[rhs].state = "live"
    /\ LET g == make_global(Target(wrappers[rhs].throwable_))
       IN /\ grefs' = g.refs
          /\ wrappers' = [wrappers EXCEPT ![NewWrapper] =
                 [NoWrapper EXCEPT
                     !.state = "live",
                     !.throwable_ = g.ref,
                     !.what_ = wrappers[rhs].what_,
                     !.isMessageExtracted_ =
                         wrappers[rhs].isMessageExtracted_]]
    /\ wlast' = [NoWLast EXCEPT !.op = "copy", !.w = NewWrapper, !.from = rhs]
    /\ UNCHANGED <<heap, pending, exc, last, raised>>
    /\ UNCHANGED hookVars

\* JniException::~JniException()
JniException_dtor(w) ==
    /\ WRunning
    /\ wrappers[w].state = "live"
    /\ grefs' = reset(wrappers[w].throwable_)
    /\ wrappers' = [wrappers EXCEPT ![w].state = "dead", ![w].throwable_ = 0]
    /\ wlast' = [NoWLast EXCEPT !.op = "destroy", !.w = w]
    /\ UNCHANGED <<heap, pending, exc, last, raised>>
    /\ UNCHANGED hookVars

kExceptionMessageFailure == <<"Unable to get exception message.">>

\* How populateWhat can end: the description is rendered, only toString()
\* works (its text followed by the stack trace extraction failure note, or
\* plain), both fail, or a call goes through the empty throwable_.
Outcomes == {"description", "toString", "toString_plain", "literal",
             "null_deref"}

\* The build without the experimental message extraction.
kUseJniMessageCode == FALSE

\* How rendering the description can end: it returns, it raises a
\* std::exception, or it raises something else.
Renders == {"ok", "std_exception", "other"}

\* How throwable_->toString() can end; through the empty throwable_ the
\* call is undefined: it raises or the process dies.
Strings == {"ok", "throws", "crash"}

\* Mutant of Tier: toString() is tried before the description.
Tier_string_first(render, str) ==
    IF str = "ok" THEN "toString"
    ELSE IF render = "ok" THEN "description"
    ELSE IF str = "crash" THEN "null_deref"
    ELSE "literal"

\* The try blocks of populateWhat: the description first; when that raises,
\* toString(), noted as a stack trace extraction failure when what was
\* raised is a std::exception (or in the experimental build); when that
\* raises too, the literal.
Tier(render, str) ==
    IF render = "ok" THEN "description"
    ELSE IF str = "crash" THEN "null_deref"
    ELSE IF str = "throws" THEN "literal"
    ELSE IF kUseJniMessageCode \/ render = "std_exception" THEN "toString"
    ELSE "toString_plain"

\* Mutant of populateWhat: the flag is not set after a successful tier.
populateWhat_no_flag(x, outcome) ==
    IF outcome = "literal"
    THEN [x EXCEPT !.what_ = kExceptionMessageFailure]
    ELSE [x EXCEPT !.what_ = <<outcome, Target(x.throwable_)>>]

\* void JniException::populateWhat() const noexcept: what_ is the rendered
\* description or the toString() text, and then isMessageExtracted_ is set;
\* when both fail what_ is kExceptionMessageFailure and the flag is left.
populateWhat(x, outcome) ==
    IF outcome = "literal"
    THEN [x EXCEPT !.what_ = kExceptionMessageFailure]
    ELSE [x EXCEPT !.what_ = <<outcome, Target(x.throwable_)>>,
                   !.isMessageExtracted_ = TRUE]

\* const char* JniException::what() const noexcept
what(w, render, str) ==
    /\ WRunning
    /\ wrappers[w].state = "live"
    /\ IF wrappers[w].isMessageExtracted_ THEN render = "ok" /\ str = "ok"
       ELSE IF wrappers[w].throwable_ = 0
       THEN render # "ok" /\ str \in {"throws", "crash"}
       ELSE str # "crash"
    /\ LET outcome == Tier(render, str)
           x == IF wrappers[w].isMessageExtracted_ \/ outcome = "null_deref"
                THEN wrappers[w]
                ELSE populateWhat(wrappers[w], outcome)
           populated == ~wrappers[w].isMessageExtracted_
       IN IF populated /\ outcome = "null_deref"
          THEN /\ wlast' = [NoWLast EXCEPT !.op = "what", !.w = w,
                                          !.status = "null_deref",
                                          !.jcalls = 1, !.render = render,
                                          !.str = str]
               /\ UNCHANGED wrappers
          ELSE /\ wrappers' = [wrappers EXCEPT
                                  ![w] = [x EXCEPT !.returned =
                                                       @ \cup {x.what_}]]
               /\ wlast' = [NoWLast EXCEPT
                               !.op = "what", !.w = w, !.status = "returned",
                               !.value = x.what_,
                               !.jcalls = IF populated
                                          THEN (IF outcome = "description"
                                                THEN 1 ELSE 2)
                                          ELSE 0,
                               !.extracted = ~populated,
                               !.before = wrappers[w].returned,
                               !.render = IF populated THEN render
                                          ELSE "none",
                               !.str = IF populated THEN str ELSE "none"]
    /\ UNCHANGED grefs
    /\ UNCHANGED <<heap, pending, exc, last, raised>>
    /\ UNCHANGED hookVars

\* void JniException::setJavaException() const noexcept on a held wrapper.
JniException_setJavaException(w, throwFails) ==
    /\ WRunning
    /\ wrappers[w].state = "live"
    /\ LET r == setJavaExceptionAndAbortOnFailure(
                    Target(wrappers[w].throwable_), throwFails)
       IN /\ pending' = r.pending
          /\ wlast' = [NoWLast EXCEPT !.op = "setJavaException", !.w = w,
                                      !.status = r.status]
    /\ UNCHANGED <<wrappers, grefs>>
    /\ UNCHANGED <<heap, exc, last, raised>>
    /\ UNCHANGED hookVars

\* convertCppExceptionToJavaException(ptr) with ptr designating the held
\* wrapper w: catch (JniException& ex) { current = ex.releaseThrowable(); }
\* then the trace merge. throwable_.releaseAlias() leaves throwable_ empty
\* and the global reference undeleted.
JniException_translate(w, frames, f) ==
    /\ WRunning
    /\ wrappers[w].state = "live"
    /\ f \in {"none", "getStackTrace", "setStackTrace"}
    /\ LET st == convertCppExceptionToJavaException(
                     [heap |-> heap,
                      chain |-> <<JniException(
                                     Target(wrappers[w].throwable_), frames)>>,
                      emptyTail |-> FALSE, status |-> "ok", previous |-> 0,
                      current |-> 0, i |-> 1, order |-> <<>>,
                      failed |-> <<>>], f)
       IN /\ heap' = st.heap
          /\ wrappers' = [wrappers EXCEPT ![w].throwable_ =
                             IF st.chain[1].throwable_ = 0 THEN 0 ELSE @]
          /\ wlast' = [NoWLast EXCEPT !.op = "translate", !.w = w,
                                      !.status = IF st.status = "ok"
                                                 THEN "returned"
                                                 ELSE st.status]
    /\ UNCHANGED grefs
    /\ UNCHANGED <<pending, exc, last, raised>>
    /\ UNCHANGED hookVars

WrapNext ==
    \/ \E k \in {"java.lang.IllegalStateException"}, msg \in {"bad"} :
          JavaThrows(k, msg, FALSE)
    \/ \E t \in 1..MaxHeap : JniException_throwable(t)
    \/ JniException_default
    \/ \E w \in Wrappers, k \in BOOLEAN : JniException_move(w, k)
    \/ \E w \in Wrappers : JniException_copy(w)
    \/ \E w \in Wrappers : JniException_dtor(w)
    \/ \E w \in Wrappers, r \in Renders, st \in Strings : what(w, r, st)
    \/ \E w \in Wrappers, tf \in BOOLEAN : JniException_setJavaException(w, tf)
    \/ \E w \in Wrappers, fr \in NativeTraces, f \in FailPoints :
          JniException_translate(w, fr, f)

vars ==
    <<enableBacktraces, table, mutex, obj, pc, heap, pending, exc, last, raised,
      wrappers, grefs, wlast>>

Init == HookInit /\ JniInit /\ WrapInit

Next == HookNext

Spec == Init /\ [][Next]_vars

SpecJni == Init /\ [][JniNext]_vars

\* The steps of thread t inside the hook's functions that wait for nothing.
HookStep(t) ==
    \/ add_exception_trace_load(t)
    \/ add_exception_trace_capture(t)
    \/ add_exception_trace_emplace(t)
    \/ call_original(t)
    \/ trace_destructor_missing(t)
    \/ trace_destructor_erase(t)
    \/ trace_destructor_call(t)
    \/ getExceptionTraceHolder_found(t)
    \/ getExceptionTraceHolder_missing(t)
    \/ getExceptionTraceHolder_fallback(t)

\* std::lock_guard lock(mutex) of thread t in one of the three functions.
HookLock(t) ==
    \/ add_exception_trace_lock(t)
    \/ trace_destructor_lock(t)
    \/ getExceptionTraceHolder_lock(t)

\* The hook under fair scheduling: a thread that can take a step takes it,
\* and a thread waiting for the mutex gets it when it is released again and
\* again. Throws, lookups and the ends of handlers come as the program
\* chooses.
SpecFair ==
    /\ Init
    /\ [][Next]_vars
    /\ \A t \in Threads : WF_vars(HookStep(t)) /\ SF_vars(HookLock(t))

SpecWrap == Init /\ [][WrapNext]_vars

TypeOK ==
    /\ enableBacktraces \in BOOLEAN
    /\ mutex \in Threads \cup {NoThread}

\* ------------------------------------------------------------------------
\* Properties of the hook (lyra/cxa_throw.cpp)
\* ------------------------------------------------------------------------

Constructed(o) == obj[o].state \in {"init", "live", "dying"}

\* The trace the hook captured for o when it was constructed.
CapturedTrace(o) == ExceptionTraceHolder(obj[o].birth.thread, o, "hook")

\* C1: every exception object constructed through the hook, with capture on
\* or off, has its original destructor called exactly once by the substituted
\* destructor once it is destroyed.
C1_OriginalDestructorCalledOnce ==
    \A o \in Objs :
        (obj[o].state = "dead" /\ obj[o].dtor # "nullptr")
            => obj[o].dtorCalls = 1

\* C2: once every constructed exception object has been destroyed, the table
\* has as many entries as before the first construction (none): no leak.
C2_NoLeak ==
    (\A o \in Objs : ~Constructed(o)) => Cardinality(table) = 0

C2_Witness ==
    /\ \A o \in Objs : obj[o].state = "dead"
    /\ \E o \in Objs : obj[o].hookFlag = "on"
    /\ \E o \in Objs : obj[o].hookFlag = "off"

\* C3: the table holds at most one record per object identity, every record
\* belongs to a constructed and not yet destroyed object, and no record is
\* left for an object whose original destructor has run.
C3_RecordsOfLiveObjects ==
    /\ \A r1, r2 \in table : r1.key = r2.key => r1 = r2
    /\ \A r \in table : Constructed(r.key) /\ obj[r.key].dtorCalls = 0

C3_Witness ==
    /\ Cardinality(table) = 1
    /\ \E o \in Objs : obj[o].state = "dead" /\ obj[o].dtorCalls = 1
    /\ \E o \in Objs : obj[o].state = "live" /\ find(table, o) # {}

\* C4 as stated: a lookup of a live object returns a recorded trace if the
\* flag was on when the hook ran for it, and an empty result if it was off.
C4_LookupFollowsFlag ==
    \A t \in Threads :
        pc[t].at = "look_done" =>
            /\ obj[pc[t].o].hookFlag = "on" => pc[t].res = CapturedTrace(pc[t].o)
            /\ obj[pc[t].o].hookFlag = "off" => pc[t].res = NoTrace

\* C4 amended: with the flag on at hook time the lookup returns the recorded
\* trace; with the flag off it returns the trace holder embedded in the
\* object when there is one (fbthrow) and an empty result otherwise; later
\* toggles of the flag change nothing.
C4_LookupFollowsFlagOrHolder ==
    \A t \in Threads :
        pc[t].at = "look_done" =>
            /\ obj[pc[t].o].hookFlag = "on" => pc[t].res = CapturedTrace(pc[t].o)
            /\ (obj[pc[t].o].hookFlag = "off" /\ ~obj[pc[t].o].holder)
                   => pc[t].res = NoTrace
            /\ (obj[pc[t].o].hookFlag = "off" /\ obj[pc[t].o].holder)
                   => pc[t].res = obj[pc[t].o].birth

C4_Witness ==
    \E t \in Threads :
        /\ pc[t].at = "look_done"
        /\ obj[pc[t].o].hookFlag = "off"
        /\ ~obj[pc[t].o].holder
        /\ enableBacktraces
        /\ pc[t].res = NoTrace

\* A completed lookup holds the trace of the object it was asked about,
\* walked by the thread that threw that object.
C5_LookupOwn ==
    \A t \in Threads :
        (pc[t].at = "look_done" /\ pc[t].res # NoTrace) =>
            /\ pc[t].res.o = pc[t].o
            /\ pc[t].res.thread = obj[pc[t].o].birth.thread

\* The record of o changes only in the emplace or erase step of a thread
\* that is working on o.
C5_OthersUntouched ==
    \A o \in Objs :
        find(table, o)' # find(table, o) =>
            \E t \in Threads :
                /\ pc[t].o = o
                /\ pc[t].at \in {"add_emplace", "dtor_find"}
                /\ pc'[t].at # pc[t].at

\* C5: a lookup of a live object returns the trace recorded for that very
\* object by the thread that threw it, and a step that inserts or erases the
\* record of one object leaves the records of all others as they were.
C5_NoCrossTalk == [](C5_LookupOwn) /\ [][C5_OthersUntouched]_vars

C5_Witness ==
    \E t1, t2 \in Threads :
        /\ t1 # t2
        /\ pc[t1].at = "look_done" /\ pc[t2].at = "look_done"
        /\ pc[t1].o # pc[t2].o
        /\ pc[t1].res.src = "hook" /\ pc[t2].res.src = "hook"
        /\ pc[t1].res.thread # pc[t2].res.thread

\* No step changes the record of an object that is live before and after it.
C6_LiveRecordFixed ==
    \A o \in Objs :
        (obj[o].state = "live" /\ obj'[o].state = "live")
            => find(table, o)' = find(table, o)

\* A lookup made in the handler of a rethrown object returns what the hook
\* captured when the object was constructed.
C6_LookupAfterRethrow ==
    \A t \in Threads :
        (pc[t].at = "look_done" /\ pc[t].re) =>
            pc[t].res = IF obj[pc[t].o].hookFlag = "on"
                        THEN CapturedTrace(pc[t].o)
                        ELSE getExceptionTraceHolderInException(pc[t].o)

\* C6: while an exception object stays live, however often and wherever it
\* is rethrown, its table entry is neither added, replaced nor removed, and a
\* lookup made after a rethrow returns the trace captured at construction.
C6_RethrowKeepsTable ==
    [](C6_LookupAfterRethrow) /\ [][C6_LiveRecordFixed]_vars

C6_Witness ==
    \E t \in Threads :
        /\ pc[t].at = "look_done" /\ pc[t].re
        /\ pc[t].res.src = "hook"
        /\ pc[t].res.thread # t
        /\ Cardinality(table) = 1

\* ------------------------------------------------------------------------
\* Properties of the translation (fbjni/detail/Exceptions.cpp)
\* ------------------------------------------------------------------------

Translated == last.op = "translate" /\ last.status = "returned"

\* The throwables met from id by following cause links, id first.
RECURSIVE CausePath(_, _, _)
CausePath(h, id, fuel) ==
    IF id = 0 \/ fuel = 0 THEN <<>>
    ELSE <<id>> \o CausePath(h, h[id].cause, fuel - 1)

\* The translations of the chain members, outermost member first.
TranslationsOutermostFirst ==
    [k \in 1..Len(last.order) |-> last.order[Len(last.order) + 1 - k].id]

\* The parts of C7 that hold of every returned translation: func was called
\* once per member, innermost member first; the result is the translation of
\* the outermost member; each translation's cause is the translation of the
\* member nested directly in it; the innermost translation keeps the cause
\* it had before, unless the same throwable is also the translation of an
\* enclosing member (two JniException members holding one throwable).
C7_Linked ==
    LET n == Len(last.chain) IN
    /\ Len(last.order) = n
    /\ \A k \in 1..n : last.order[k].i = n + 1 - k
    /\ last.value = last.order[n].id
    /\ \A k \in 2..n : heap[last.order[k].id].cause = last.order[k - 1].id
    /\ LET inner == last.order[1].id IN
          (\A k \in 2..n : last.order[k].id # inner) =>
              heap[inner].cause =
                  IF inner <= Len(last.heap0) THEN last.heap0[inner].cause
                  ELSE 0

\* C7 as stated: in addition, exactly N throwables are reachable from the
\* result by following cause links.
C7_ExactlyN ==
    Translated =>
        /\ C7_Linked
        /\ Len(CausePath(heap, last.value, MaxHeap + 1)) = Len(last.chain)

\* C7 amended: the first N throwables on the cause path from the result are
\* the N translations, outermost first, each one's cause being the
\* translation of the member nested directly in it; the innermost
\* translation keeps the cause it had before the translation (none when it
\* was newly constructed) unless an enclosing member holds the same
\* throwable, so the path may go on beyond the N translations.
C7_FirstN ==
    Translated =>
        /\ C7_Linked
        /\ LET n == Len(last.chain)
               path == CausePath(heap, last.value, n)
           IN path = TranslationsOutermostFirst

C7_Witness ==
    /\ Translated
    /\ Len(last.chain) = 2
    /\ last.chain[1].type = "runtime_error"
    /\ last.chain[2].type = "JniException"
    /\ Len(CausePath(heap, last.value, MaxHeap + 1)) = 2
    /\ heap[last.value].cause = last.chain[2].adopted

\* The order of categories as C8 lists it, with the managed kind of each.
C8_Precedence ==
    <<"JniException", "ios_failure", "invalid_argument", "bad_alloc",
      "out_of_range", "system_error", "runtime_error", "exception", "cstr">>

C8_Category(type) ==
    LET ks == {k \in 1..Len(C8_Precedence) : C8_Precedence[k] \in Bases(type)}
    IN IF ks = {} THEN "anything else"
       ELSE C8_Precedence[CHOOSE k \in ks : \A j \in ks : k <= j]

C8_Kind(category) ==
    CASE category = "ios_failure"      -> "java.io.IOException"
      [] category = "invalid_argument" -> "java.lang.IllegalArgumentException"
      [] category = "bad_alloc"        -> "java.lang.OutOfMemoryError"
      [] category = "out_of_range"     -> "java.lang.ArrayIndexOutOfBoundsException"
      [] category = "system_error"     -> "com.facebook.jni.CppSystemErrorException"
      [] category = "runtime_error"    -> "java.lang.RuntimeException"
      [] category = "exception"        -> "com.facebook.jni.CppException"
      [] category = "cstr"             -> "com.facebook.jni.UnknownCppException"
      [] category = "anything else"    -> "com.facebook.jni.UnknownCppException"

\* C8: each member of a translated chain gets the managed kind of the first
\* category, in the listed order, that its type belongs to: an adopted
\* managed exception its own throwable, a system error its numeric code.
C8_FirstCategoryWins ==
    Translated =>
        \A k \in 1..Len(last.order) :
            LET m == last.chain[last.order[k].i]
                t == heap[last.order[k].id]
                cat == C8_Category(m.type)
            IN IF cat = "JniException"
               THEN last.order[k].id = m.adopted
               ELSE /\ last.order[k].id > Len(last.heap0)
                    /\ t.kind = C8_Kind(cat)
                    /\ cat = "system_error" => t.code = m.code
                    /\ cat \notin {"anything else"} => t.msg = m.msg

C8_Witness ==
    /\ Translated
    /\ Len(last.chain) = 2
    /\ last.chain[1].type = "ios_failure"
    /\ last.chain[2].type = "system_error"
    /\ heap[last.order[2].id].kind = "java.io.IOException"
    /\ heap[last.order[1].id].kind = "com.facebook.jni.CppSystemErrorException"
    /\ heap[last.order[1].id].code = 2

\* A JniException member holding T is translated to T, and throwables are
\* constructed for the other members only.
C9_Unwrapped ==
    Translated =>
        /\ \A k \in 1..Len(last.order) :
              LET m == last.chain[last.order[k].i] IN
              (m.type = "JniException" /\ m.throwable_ # 0)
                  => last.order[k].id = m.throwable_
        /\ Len(heap) = Len(last.heap0) + NewObjects(last.chain)

\* A translation that directly follows the adoption of the pending throwable
\* returns that throwable and constructs none.
C9_AdoptThenTranslate ==
    ( /\ last.op \in {"throwPending", "throwCppExceptionIf"}
      /\ last.pendingBefore # 0
      /\ last.value # 0
      /\ last'.op = "translate"
      /\ last'.status = "returned" )
        => /\ last'.value = last.pendingBefore
           /\ heap'[last'.value].kind = heap[last.pendingBefore].kind
           /\ Len(heap') = Len(heap)

\* C9: translating a JniException that holds throwable T yields T itself and
\* constructs no throwable for it; a translation that directly follows the
\* adoption of the pending throwable returns that throwable.
C9_RoundTrip == [](C9_Unwrapped) /\ [][C9_AdoptThenTranslate]_vars

C9_Witness ==
    /\ Translated
    /\ Len(last.chain) = 1
    /\ last.chain[1].type = "JniException"
    /\ last.pendingBefore = 0
    /\ last.value = last.chain[1].adopted
    /\ last.value = Len(heap)
    /\ heap[last.value].kind = "java.lang.IllegalStateException"
    /\ Len(heap) = Len(last.heap0)

\* C10 as stated: throwPendingJniExceptionAsCppException always ends by
\* raising; with a managed exception pending the slot is cleared and the
\* raised wrapper carries exactly that throwable.
C10_AlwaysRaises ==
    last.op = "throwPending" =>
        /\ last.status = "raised"
        /\ exc.chain # <<>>
        /\ last.pendingBefore # 0 =>
              /\ pending = 0
              /\ exc.chain[1].type = "JniException"
              /\ exc.chain[1].throwable_ = last.pendingBefore

\* What holds of the body of throwPendingJniExceptionAsCppException when a
\* managed exception was pending (last.pendingBefore # 0).
C10_PendingRaised ==
    /\ last.status = "raised"
    /\ Len(exc.chain) = 1
    /\ IF last.env = <<"ExceptionOccurred">>
       THEN /\ pending = last.pendingBefore
            /\ exc.chain[1].type = "runtime_error"
            /\ exc.chain[1].msg = "Unable to get pending JNI exception."
       ELSE /\ pending = 0
            /\ exc.chain[1].type = "JniException"
            /\ exc.chain[1].throwable_ = last.pendingBefore

\* C10 amended: throwPendingJniExceptionAsCppException returns normally and
\* raises nothing when no managed exception is pending; when one is pending
\* it raises: the slot is cleared and the raised JniException carries exactly
\* that throwable, or, if ExceptionOccurred gives no reference, a
\* std::runtime_error is raised and the slot is left as it is.
\* throwCppExceptionIf(true) always raises: as above when an exception is
\* pending, else a JniException holding a newly built RuntimeException.
C10_RaisesWhenPending ==
    /\ last.op = "throwPending" =>
          IF last.pendingBefore # 0 THEN C10_PendingRaised
          ELSE last.status = "returned" /\ exc = NoExc /\ pending = 0
    /\ (last.op = "throwCppExceptionIf" /\ last.status = "raised") =>
          IF last.pendingBefore # 0 THEN C10_PendingRaised
          ELSE /\ pending = 0
               /\ Len(exc.chain) = 1
               /\ exc.chain[1].type = "JniException"
               /\ exc.chain[1].throwable_ = Len(heap)
               /\ Len(heap) = Len(last.heap0) + 1
               /\ heap[Len(heap)].kind = "java.lang.RuntimeException"
    /\ (last.op = "throwCppExceptionIf" /\ last.status = "returned") =>
          exc = NoExc

C10_Witness ==
    /\ last.op = "throwPending"
    /\ last.pendingBefore # 0
    /\ last.status = "raised"
    /\ pending = 0
    /\ exc.chain[1].throwable_ = last.pendingBefore

\* ------------------------------------------------------------------------
\* Properties of the boundary guard and of JniException
\* ------------------------------------------------------------------------
Installs == {"translatePending", "setJavaException"}

C11_Outcome ==
    last.op \in Installs =>
        \/ /\ last.status = "returned"
           /\ pending \in 1..Len(heap)
        \/ /\ last.status = "terminated"
           /\ pending = last.pendingBefore
           /\ \/ pending = 0
              \/ last.op = "translatePending" /\ last.value = 0

\* C11: when translatePendingCppExceptionToJavaException or
\* JniException::setJavaException returns, a managed exception is pending;
\* otherwise (empty throwable reference with nothing pending, failed Throw,
\* failure inside the translation) the process is terminated, and a
\* terminated process takes no further step.
C11_PendingOrTerminated == [](C11_Outcome) /\ [][Running]_vars

C11_Witness ==
    /\ last.op = "translatePending"
    /\ last.status = "returned"
    /\ Len(last.chain) = 2
    /\ last.pendingBefore = 0
    /\ pending = last.value

C11_ReachEmptyWrapperTerminates ==
    /\ last.op = "setJavaException"
    /\ last.value = 0
    /\ last.env = <<>>
    /\ last.status = "terminated"

C11_ReachTranslationFailureTerminates ==
    /\ last.op = "translatePending"
    /\ last.env = <<"setStackTrace">>
    /\ last.status = "terminated"

\* C12 as claimed: getJavaExceptionForCppException never raises; when a step
\* fails it still returns a throwable, of the unknown-native-exception kind.
C12_NeverRaises ==
    last.op = "translate" =>
        /\ last.status = "returned"
        /\ last.value \in 1..Len(heap)
        /\ last.env # <<>> =>
               heap[last.value].kind = "com.facebook.jni.UnknownCppException"

\* C12 (amended): getJavaExceptionForCppException returns a throwable exactly
\* when no step failed; a failing step (create, getStackTrace, setStackTrace,
\* initCause) raises out of it with nothing returned and nothing installed;
\* an empty nested pointer fails the assertion and an already released
\* wrapper is dereferenced empty.
C12_RaisesOnFailure ==
    last.op = "translate" =>
        \/ /\ last.status = "returned"
           /\ last.value \in 1..Len(heap)
           /\ last.env = <<>>
        \/ /\ last.status = "raised"
           /\ last.value = 0
           /\ Len(last.env) = 1
           /\ last.env[1] \in FailPoints \ {"none"}
           /\ pending = last.pendingBefore
        \/ /\ last.status \in {"assert", "null_deref"}
           /\ last.value = 0
           /\ last.env = <<>>

C12_Witness ==
    /\ last.op = "translate"
    /\ last.status = "raised"
    /\ last.env = <<"setStackTrace">>
    /\ Len(last.chain) = 2

\* C13 as claimed: once what() has returned for a wrapper, every later call
\* returns the same string and makes no call into the managed runtime,
\* whichever tier produced the first value.
C13_Cached ==
    (wlast.op = "what" /\ wlast.status = "returned" /\ wlast.before # {}) =>
        /\ wlast.jcalls = 0
        /\ wlast.before = {wlast.value}

\* C13 (amended): once what() has returned a rendered or toString() value
\* for a wrapper that is not moved from, every later call returns that value
\* and makes no call into the managed runtime; while only the literal
\* fallback was returned, every call runs populateWhat again.
C13_CachedOnceExtracted ==
    (wlast.op = "what" /\ wlast.status = "returned") =>
        LET x == wrappers[wlast.w]
            good == wlast.before \ {kExceptionMessageFailure, NoWhat}
        IN /\ (good # {} /\ ~x.moved) =>
                  /\ wlast.jcalls = 0
                  /\ good = {wlast.value}
           /\ (good = {} /\ kExceptionMessageFailure \in wlast.before) =>
                  wlast.jcalls > 0

C13_Witness ==
    /\ wlast.op = "what"
    /\ wlast.status = "returned"
    /\ wlast.jcalls = 0
    /\ wlast.before = {kExceptionMessageFailure, wlast.value}
    /\ wlast.value[1] = "toString"
    /\ ~wrappers[wlast.w].moved

C13_ReachRecomputed ==
    /\ wlast.op = "what"
    /\ wlast.before = {kExceptionMessageFailure}
    /\ wlast.value = kExceptionMessageFailure
    /\ wlast.jcalls > 0

\* C14: a live JniException holds a non-null reference to a managed
\* throwable after any sequence of copies, descriptions, installations and
\* translations (the source of a move, which C17 says owns nothing, is set
\* aside), and the default constructor wraps a newly constructed
\* RuntimeException.
C14_NeverEmpty ==
    /\ \A w \in Wrappers :
           (wrappers[w].state = "live" /\ ~wrappers[w].moved) =>
               /\ wrappers[w].throwable_ \in 1..Len(grefs)
               /\ grefs[wrappers[w].throwable_].deleted = 0
    /\ wlast.op = "default" =>
           /\ Target(wrappers[wlast.w].throwable_) \in 1..Len(heap)
           /\ heap[Target(wrappers[wlast.w].throwable_)].kind =
                  "java.lang.RuntimeException"

\* C17: every global reference created for a wrapper is deleted exactly
\* once: never twice, while undeleted it is owned by exactly one live
\* wrapper, and once no wrapper is live none is outstanding.
C17_ReleasedOnce ==
    /\ \A r \in 1..Len(grefs) :
           /\ grefs[r].deleted <= 1
           /\ grefs[r].deleted = 0 =>
                  Cardinality({w \in Wrappers :
                                  /\ wrappers[w].state = "live"
                                  /\ wrappers[w].throwable_ = r}) = 1
    /\ (\A w \in Wrappers : wrappers[w].state # "live") =>
           \A r \in 1..Len(grefs) : grefs[r].deleted = 1

\* ------------------------------------------------------------------------
\* Properties of the stack trace merge
\* ------------------------------------------------------------------------
\* A translation of the whole chain has completed.
Converted ==
    /\ last.op \in {"translate", "translatePending"}
    /\ last.value # 0

\* The managed trace throwable id had when the translation reached it: the
\* one it had before, or the one the JVM gave it at construction.
TraceBefore(id) ==
    IF id <= Len(last.heap0) THEN last.heap0[id].trace ELSE JavaStackNow

\* The calls of convertCppExceptionToJavaException whose throwable no other
\* member of the chain shares.
SoleCalls ==
    {k \in 1..Len(last.order) :
        \A j \in 1..Len(last.order) :
            j # k => last.order[j].id # last.order[k].id}

\* C15: after convertCppExceptionToJavaException, the throwable's managed
\* trace is the native frames n1..nk followed by the managed frames m1..mj
\* it had: length k+j, order kept, nothing dropped or duplicated.
C15_NativeThenManaged ==
    Converted =>
        \A k \in SoleCalls :
            LET id == last.order[k].id
                n == last.chain[last.order[k].i].frames
                m == TraceBefore(id)
                t == heap[id].trace
            IN /\ Len(t) = Len(n) + Len(m)
               /\ \A x \in 1..Len(n) : t[x] = n[x]
               /\ \A x \in 1..Len(m) : t[Len(n) + x] = m[x]

C15_Witness ==
    /\ Converted
    /\ Len(last.chain) = 2
    /\ SoleCalls = {1, 2}
    /\ last.chain[1].type = "JniException"
    /\ last.chain[1].frames = <<"n1", "n2">>
    /\ heap[last.value].trace = <<"n1", "n2", "m1">>
    /\ last.chain[2].frames = <<"n1", "n2">>

\* No member of the translated chain has recorded native frames (no record
\* in the table and no embedded holder: getExceptionTraceHolder gave none).
NoRecord ==
    /\ last.op \in {"translate", "translatePending"}
    /\ \A i \in 1..Len(last.chain) : last.chain[i].frames = <<>>

\* The same translation, had every member recorded frames.
WithRecord ==
    denest([heap |-> last.heap0,
            chain |-> [i \in 1..Len(last.chain) |->
                          [last.chain[i] EXCEPT !.frames = <<"n1", "n2">>]],
            emptyTail |-> exc.emptyTail, status |-> "ok", previous |-> 0,
            current |-> 0, i |-> 0, order |-> <<>>, failed |-> <<>>],
           1, [i \in 1..Len(last.chain) |-> "none"])

\* C16: when no trace record is found, the translation gives the throwables
\* the kind, message and cause it gives with a record and leaves each
\* managed trace as it was; if it fails, it fails in a JNI call, never
\* because the record is missing.
C16_NoRecordNoError ==
    NoRecord =>
        /\ \A x \in 1..Len(last.env) :
               last.env[x] \in (FailPoints \ {"none"}) \cup {"Throw"}
        /\ Converted =>
               /\ WithRecord.status = "ok"
               /\ WithRecord.previous = last.value
               /\ Len(WithRecord.heap) = Len(heap)
               /\ \A id \in 1..Len(heap) :
                      /\ heap[id].kind = WithRecord.heap[id].kind
                      /\ heap[id].msg = WithRecord.heap[id].msg
                      /\ heap[id].code = WithRecord.heap[id].code
                      /\ heap[id].cause = WithRecord.heap[id].cause
               /\ \A k \in SoleCalls :
                      heap[last.order[k].id].trace =
                          TraceBefore(last.order[k].id)

C16_Witness ==
    /\ NoRecord
    /\ Converted
    /\ Len(last.chain) = 2
    /\ last.chain[1].type = "system_error"
    /\ heap[last.value].kind = "com.facebook.jni.CppSystemErrorException"
    /\ heap[last.value].msg = "bad"
    /\ heap[last.value].trace = JavaStackNow
    /\ WithRecord.heap[last.value].trace = <<"n1", "n2">> \o JavaStackNow

\* ------------------------------------------------------------------------
\* Locking and ordering in the hook (lyra/cxa_throw.cpp)
\* ------------------------------------------------------------------------
\* C18 as claimed: the stack walk of add_exception_trace runs while the
\* table mutex is not held by the walking thread; the mutex is held only for
\* the insertion.
C18_CaptureOutsideLock ==
    \A t \in Threads :
        /\ pc[t].at = "add_capture" => mutex # t
        /\ pc[t].at = "add_emplace" => mutex = t

\* C18 (amended): the stack walk of add_exception_trace runs while the
\* walking thread holds the table mutex: the mutex is taken before the walk
\* and held through the insertion of the captured trace.
C18_CaptureUnderLock ==
    \A t \in Threads :
        /\ pc[t].at \in {"add_capture", "add_emplace"} => mutex = t
        /\ pc[t].at = "add_emplace" =>
               pc[t].res = ExceptionTraceHolder(t, pc[t].o, "hook")
        /\ pc[t].at \in {"add_load", "add_lock", "add_capture"} =>
               pc[t].res = NoTrace

C18_Witness ==
    \E t \in Threads, u \in Threads :
        /\ pc[t].at = "add_capture"
        /\ mutex = t
        /\ pc[u].at = "look_lock"

\* The positions at which a thread reads or writes the map.
InTable == {"add_capture", "add_emplace", "dtor_find", "look_find"}

C19_Holder ==
    /\ \A t \in Threads : pc[t].at \in InTable <=> mutex = t
    /\ Cardinality({t \in Threads : pc[t].at \in InTable}) <= 1

C19_Write ==
    table' # table =>
        /\ mutex \in Threads
        /\ pc[mutex].at \in {"add_emplace", "dtor_find"}
        /\ pc'[mutex].at \notin InTable
        /\ \A t \in Threads \ {mutex} : pc'[t] = pc[t]

\* C19: the insert of add_exception_trace, the find and erase of
\* trace_destructor and the find of getExceptionTraceHolder run while the
\* executing thread holds the mutex; at most one thread is inside such an
\* operation.
C19_TableUnderMutex == [](C19_Holder) /\ [][C19_Write]_vars

C19_Witness ==
    \E t \in Threads, u \in Threads :
        /\ pc[t].at = "look_find"
        /\ mutex = t
        /\ find(table, pc[t].o) # {}
        /\ pc[u].at = "dtor_lock"

\* The original destructor of o is about to run, is running or has run.
Destroying(o) ==
    \/ obj[o].state = "dead"
    \/ \E t \in Threads : pc[t].at = "dtor_call" /\ pc[t].o = o

C20_Erased == \A o \in Objs : Destroying(o) => find(table, o) = {}

C20_ErasedOnce ==
    \A r \in table \ table' :
        /\ table \ table' = {r}
        /\ table' \subseteq table
        /\ mutex \in Threads
        /\ pc[mutex].at = "dtor_find"
        /\ pc[mutex].o = r.key
        /\ pc'[mutex].at = "dtor_call"
        /\ obj[r.key].state = "dying"

\* C20: while the original destructor of an exception object runs and after
\* it has run, the table has no record for the object: trace_destructor
\* erases the record, under the mutex, before it calls the original
\* destructor, and a record is erased once, by that step only.
C20_EraseBeforeDestroy == [](C20_Erased) /\ [][C20_ErasedOnce]_vars

C20_Witness ==
    \E t \in Threads :
        /\ pc[t].at = "dtor_call"
        /\ pc[t].d = "dtor"
        /\ obj[pc[t].o].hookFlag = "on"
        /\ find(table, pc[t].o) = {}
        /\ table # {}

\* ------------------------------------------------------------------------
\* Delegation to the original primitive (lyra/cxa_throw.cpp)
\* ------------------------------------------------------------------------
C21_Delegated ==
    \A o \in Objs :
        /\ obj[o].state = "init" => obj[o].origCalls = 0
        /\ obj[o].state \in {"live", "dying"} =>
               /\ obj[o].origCalls = 1
               /\ obj[o].regType = obj[o].type
               /\ obj[o].regDtor = "trace_destructor"
               /\ obj[o].hookFlag \in {"on", "off"}
        /\ (obj[o].state = "live" /\ obj[o].hookFlag = "on") =>
               find(table, o) # {}

C21_AfterInsert ==
    \A t \in Threads :
        (pc[t].at = "call_original" /\ pc'[t].at = "idle") =>
            LET o == pc[t].o
            IN /\ obj[o].state = "init"
               /\ obj'[o].state = "live"
               /\ obj'[o].origCalls = 1
               /\ obj[o].hookFlag = "on" =>
                      find(table, o) =
                          {ExceptionState(o, ExceptionTraceHolder(t, o, "hook"),
                                          pc[t].d)}
               /\ \A u \in Threads : pc[u].o = o => u = t

\* C21: each call of the hook calls the original primitive exactly once,
\* with the same object and type descriptor and with trace_destructor in
\* place of the destructor, capture enabled or not; when capture is
\* enabled the record is in the table before that call, so before any
\* handler or lookup can see the exception.
C21_DelegatesOnceAfterInsert == [](C21_Delegated) /\ [][C21_AfterInsert]_vars

C21_Witness ==
    \E o \in Objs, p \in Objs, t \in Threads :
        /\ obj[o].state = "live" /\ obj[o].hookFlag = "on"
        /\ obj[o].type = "Holder<E>" /\ obj[o].regType = "Holder<E>"
        /\ obj[p].state = "live" /\ obj[p].hookFlag = "off"
        /\ obj[p].origCalls = 1 /\ obj[p].regDtor = "trace_destructor"
        /\ pc[t].at = "look_find" /\ pc[t].o = o

\* ------------------------------------------------------------------------
\* The tiers of the description (fbjni/detail/Exceptions.cpp)
\* ------------------------------------------------------------------------
Populated == wlast.op = "what" /\ ~wlast.extracted

NeverRaises ==
    wlast.op = "what" =>
        /\ wlast.status \in {"returned", "null_deref"}
        /\ wlast.status = "null_deref" =>
               wrappers[wlast.w].throwable_ = 0

\* C22 as claimed: what() never raises; it returns the rendered description
\* when rendering works, else the toString() text with the failure note
\* when that works, else the literal; a tier is tried only after the ones
\* before it failed.
C22_MarkedTiers ==
    /\ NeverRaises
    /\ (Populated /\ wlast.status = "returned") =>
           LET t == Target(wrappers[wlast.w].throwable_)
           IN IF wlast.render = "ok"
              THEN wlast.value = <<"description", t>> /\ wlast.jcalls = 1
              ELSE IF wlast.str = "ok"
              THEN wlast.value = <<"toString", t>> /\ wlast.jcalls = 2
              ELSE wlast.value = kExceptionMessageFailure /\ wlast.jcalls = 2

\* C22 (amended): what() never raises; it returns the rendered description
\* when rendering works, else the toString() text when that works, with the
\* failure note only when rendering failed with a std::exception, else the
\* literal; a tier is tried only after the ones before it failed.
C22_Tiers ==
    /\ NeverRaises
    /\ (Populated /\ wlast.status = "returned") =>
           LET t == Target(wrappers[wlast.w].throwable_)
           IN IF wlast.render = "ok"
              THEN wlast.value = <<"description", t>> /\ wlast.jcalls = 1
              ELSE IF wlast.str = "ok"
              THEN /\ wlast.value =
                          <<IF wlast.render = "std_exception"
                            THEN "toString" ELSE "toString_plain", t>>
                   /\ wlast.jcalls = 2
              ELSE wlast.value = kExceptionMessageFailure /\ wlast.jcalls = 2

C22_Witness ==
    /\ Populated
    /\ wlast.status = "returned"
    /\ wlast.render = "std_exception"
    /\ wlast.str = "ok"
    /\ wlast.value[1] = "toString"
    /\ wlast.before = {kExceptionMessageFailure}

C22_ReachPlain ==
    /\ Populated
    /\ wlast.render = "other"
    /\ wlast.value[1] = "toString_plain"

\* ------------------------------------------------------------------------
\* What a lookup returns (lyra/cxa_throw.cpp)
\* ------------------------------------------------------------------------
C23_Result ==
    \A t \in Threads :
        pc[t].at = "look_done" =>
            LET o == pc[t].o
                rec == find(table, o)
            IN IF rec # {}
               THEN /\ \E it \in rec : pc[t].res = it.trace
                    /\ pc[t].res # NoTrace
               ELSE IF obj[o].holder
               THEN pc[t].res = obj[o].birth /\ pc[t].res # NoTrace
               ELSE pc[t].res = NoTrace

C23_Step ==
    \A t \in Threads :
        /\ (pc[t].at = "look_find" /\ pc'[t].at = "look_done") =>
               find(table, pc[t].o) # {}
        /\ pc'[t].at = "look_fallback" =>
               /\ find(table', pc'[t].o) = {}
               /\ obj'[pc'[t].o].state = "live"

\* C23: a lookup returns the trace of the table's record for the object
\* when there is one; only when there is none it returns the holder
\* embedded in the object (fbthrow), and nothing when there is neither; the
\* record is preferred to an embedded holder.
C23_RecordThenHolder == [](C23_Result) /\ [][C23_Step]_vars

C23_Witness ==
    \E t \in Threads, u \in Threads :
        /\ pc[t].at = "look_done"
        /\ obj[pc[t].o].holder
        /\ find(table, pc[t].o) # {}
        /\ pc[t].res # obj[pc[t].o].birth
        /\ pc[u].at = "look_done"
        /\ obj[pc[u].o].holder
        /\ find(table, pc[u].o) = {}
        /\ pc[u].res = obj[pc[u].o].birth

\* ------------------------------------------------------------------------
\* The assertion of denest (fbjni/detail/Exceptions.cpp)
\* ------------------------------------------------------------------------
\* C24: in a translation of the exception in flight FBJNI_ASSERT(ptr) holds
\* at every call of denest, also when the last std::nested_exception of the
\* chain has an empty nested_ptr().
C24_AssertHolds ==
    last.op = "translate" => last.status # "assert"

C24_ReachEmptyTail ==
    /\ last.op = "translate"
    /\ last.status = "assert"
    /\ exc.emptyTail
    /\ Len(last.chain) = 1
    /\ last.env = <<>>
    /\ heap = last.heap0

\* ------------------------------------------------------------------------
\* Progress of the hook (lyra/cxa_throw.cpp)
\* ------------------------------------------------------------------------
InHook(t) ==
    pc[t].at \in {"add_load", "add_lock", "add_capture", "add_emplace",
                  "call_original", "dtor_lock", "dtor_find", "dtor_call",
                  "look_lock", "look_find", "look_fallback"}

C25_HeldOnlyInside ==
    \A t \in Threads :
        mutex = t => pc[t].at \in {"add_capture", "add_emplace", "dtor_find",
                                   "look_find"}

C25_Completes ==
    \A t \in Threads : InHook(t) ~> (~InHook(t) /\ mutex # t)

C26_Again ==
    ( /\ last.op = "translate"
      /\ last.status = "returned"
      /\ last'.op = "translate"
      /\ last'.env = <<>> )
        => /\ last'.status = "returned"
           /\ last'.value \in 1..Len(heap')
           /\ heap'[last'.value].kind = heap[last.value].kind
           /\ heap'[last'.value].msg = heap[last.value].msg
           /\ last.chain[1].type = "JniException" =>
                  last'.value = last.value

\* C26: a second translation of the exception in flight, with no call into
\* the managed runtime failing, returns a throwable of the same kind and
\* message as the first; for a JniException both return its throwable.
C26_Repeatable == [][C26_Again]_vars

C26_ReachSecondEmpty ==
    /\ last.op = "translate"
    /\ last.status = "null_deref"
    /\ Len(last.chain) = 1
    /\ last.chain[1].type = "JniException"
    /\ last.chain[1].throwable_ = 0
    /\ last.chain[1].adopted # 0

C26_ReachSecondStd ==
    /\ last.op = "translate"
    /\ last.status = "returned"
    /\ Len(last.chain) = 1
    /\ last.chain[1].type # "JniException"
    /\ last.value = 2
    /\ Len(last.heap0) = 1
    /\ heap[1].kind = heap[2].kind
    /\ heap[1].msg = heap[2].msg
====
